---- MODULE Spec2Model ----
(***************************************************************************)
(* Ruralis API: agrochemical inventory and expense tracking.               *)
(*                                                                         *)
(* The repository holds two versions of the application:                   *)
(*   src/main.py          ("legacy": users, agrochemicals with delete, an  *)
(*                         apply whose cost is price * (quantity / 1000))  *)
(*   src/ruralis/main.py  ("ruralis": agrochemicals with a currency, an    *)
(*                         apply with ARS/USD costs, the cost report)      *)
(* The variable `variant` says which of the two is deployed; it never      *)
(* changes during a behaviour.                                             *)
(*                                                                         *)
(* Store: a SQLite file reached through SQLAlchemy sessions.  The three    *)
(* tables are functions from the integer primary key to the row.  A        *)
(* session (one per request, get_db) works on its own copies of the rows   *)
(* it loaded; nothing reaches the store before db.commit(), which writes   *)
(* the pending UPDATE and INSERT in one transaction.                       *)
(*                                                                         *)
(* Numbers: the columns are floats.  Quantities are modelled as integers   *)
(* and every money amount and exchange rate as an integer number of        *)
(* thousandths (1000 stands for 1.0, 1 for 0.001), so that the legacy      *)
(* division by 1000 and the fallback rate 0.001 are exact.  Float rounding *)
(* is not modelled.  The columns nombre, unidad, name and fecha take no    *)
(* part in any decision of the code and are left out of the rows.          *)
(***************************************************************************)
EXTENDS Integers, FiniteSets, TLC

VARIABLES
    variant,        \* "legacy" (src/main.py) or "ruralis" (src/ruralis/main.py)
    users,          \* table users: id -> [email]
    agroquimicos,   \* table agroquimicos: id -> [cantidad, precio_unitario(, moneda)]
    gastos,         \* table gastos_agroquimicos: id -> row
    ses,            \* the request sessions: slot -> state of an apply request
    reporte,        \* outcome of the last GET /reportes/costo-total/
    ever,           \* history: the ids each table has ever held
    creado          \* history: id of a stored agrochemical -> its cantidad at creation

vars == <<variant, users, agroquimicos, gastos, ses, reporte, ever, creado>>

(* ------------------------------ bounds -------------------------------- *)
MaxAgroId == 1      \* largest agrochemical id a create may produce
MaxGastoId == 2     \* largest expense id an apply may produce
MaxUserId == 1      \* largest user id a create may produce

Sessions == {"s1", "s2"}           \* requests that may be in flight at once
Emails == {"a@x", "b@x"}
CantidadesIniciales == {-1, 4}     \* AgroquimicoCreate.cantidad: any float
Precios == {50}                    \* AgroquimicoCreate.precio_unitario
Dosis == {1, 2}                    \* request.dosis / dosis_por_ha (positive)
Hectareas == {2}                   \* request.hectareas (positive)
TasasAPI == {2}                    \* numeric USD rates the provider may send (thousandths)

(* ------------------------------ values -------------------------------- *)
Nulo == [nulo |-> TRUE]            \* Python's None / nothing loaded

Numero(v) == [tipo |-> "float", valor |-> v]
NoNumero == [tipo |-> "NoneType", valor |-> 0]   \* JSON null (or a string, a list)
EsNumero(v) == v.tipo = "float"

TipoCambioRespaldo == 1            \* 0.001, in thousandths

Max(S) == CHOOSE x \in S : \A y \in S : y <= x

RECURSIVE Suma(_, _)
Suma(f, S) == IF S = {} THEN 0
              ELSE LET x == CHOOSE y \in S : TRUE IN f[x] + Suma(f, S \ {x})

(* ------------------------- the store (SQLite) -------------------------- *)
(* Column(Integer, primary_key=True) on SQLite is an INTEGER PRIMARY KEY   *)
(* without AUTOINCREMENT: an INSERT that gives no id takes the largest id  *)
(* now in the table plus one (1 in an empty table).                        *)
rowid(tabla) == IF DOMAIN tabla = {} THEN 1 ELSE Max(DOMAIN tabla) + 1

insertar(tabla, fila) == tabla @@ (rowid(tabla) :> fila)

borrar(tabla, id) == [i \in DOMAIN tabla \ {id} |-> tabla[i]]

(* The row a create stores: the legacy table has no moneda column.         *)
fila_agroquimico(cantidad, precio, moneda) ==
    IF variant = "legacy"
    THEN [cantidad |-> cantidad, precio_unitario |-> precio]
    ELSE [cantidad |-> cantidad, precio_unitario |-> precio, moneda |-> moneda]

Monedas == IF variant = "legacy" THEN {"ARS"} ELSE {"ARS", "USD"}

(* The names src/ruralis/main.py imports (lines 1-7).                      *)
Imports == {"FastAPI", "Depends", "BaseModel", "create_engine", "Column",
            "Integer", "String", "Float", "declarative_base", "sessionmaker",
            "Session", "datetime", "requests"}

(* --------------------------- pure functions ---------------------------- *)
cantidad_aplicada(dosis, hectareas) == dosis * hectareas

(* Mutants of the sufficiency check: the comparison turned round; the      *)
(* check left out.                                                         *)
Mut_StockInsuficiente_invertida(cantidad, aplicada) == cantidad > aplicada

Mut_StockInsuficiente_nunca(cantidad, aplicada) == FALSE

(* if db_agroquimico.cantidad < cantidad_aplicada                          *)
StockInsuficiente(cantidad, aplicada) == cantidad < aplicada

reducir_stock(cantidad, aplicada) == cantidad - aplicada

(* ruralis: precio_unitario * cantidad_aplicada, in thousandths.           *)
costo_total_ars(precio, aplicada) == precio * aplicada * 1000

(* legacy: precio_unitario * (cantidad_necesaria / 1000), in thousandths.  *)
costo_total_legacy(precio, aplicada) == (precio * aplicada * 1000) \div 1000

(* ruralis lines 114-117; ars and the rate are in thousandths.  Called     *)
(* only with a numeric rate when moneda = "ARS".                           *)
costo_total_usd(moneda, ars, tipo_cambio) ==
    IF moneda = "ARS" THEN (ars * tipo_cambio.valor) \div 1000 ELSE ars

(* What requests.get + response.json() may produce.                        *)
RespuestasAPI ==
    {[clase |-> c, usd |-> NoNumero] :
        c \in {"error_red", "malformado", "sin_rates", "sin_usd"}}
    \cup {[clase |-> "usd", usd |-> v] :
            v \in {Numero(t) : t \in TasasAPI} \cup {NoNumero}}

(* try: data["rates"].get("USD", 0.001)  except: 0.001                     *)
obtener_tipo_cambio(r) ==
    CASE r.clase = "error_red"  -> Numero(TipoCambioRespaldo)
      [] r.clase = "malformado" -> Numero(TipoCambioRespaldo)
      [] r.clase = "sin_rates"  -> Numero(TipoCambioRespaldo)
      [] r.clase = "sin_usd"    -> Numero(TipoCambioRespaldo)
      [] r.clase = "usd"        -> r.usd

(* ------------------------------- sessions ------------------------------ *)
Idle == [pc |-> "idle", agroquimico_id |-> 0, dosis |-> 0, hectareas |-> 0,
         leido |-> 0, obj |-> Nulo, tipo_cambio |-> Nulo, gasto |-> Nulo,
         gasto_id |-> 0, resp |-> Nulo]

EnVuelo(s) == ses[s].pc \in {"tipo_cambio", "commit"}

Aplicada(s) == cantidad_aplicada(ses[s].dosis, ses[s].hectareas)

Init ==
    /\ variant \in {"legacy", "ruralis"}
    /\ users = <<>>
    /\ agroquimicos = <<>>
    /\ gastos = <<>>
    /\ ses = [s \in Sessions |-> Idle]
    /\ reporte = Nulo
    /\ ever = [users |-> {}, agroquimicos |-> {}, gastos |-> {}]
    /\ creado = <<>>

(* ------------------------------- users --------------------------------- *)
(* POST /users/ (legacy).  A second user with a stored email breaks the    *)
(* unique index: the commit raises and nothing is stored.                  *)
create_user(email) ==
    /\ variant = "legacy"
    /\ IF \E u \in DOMAIN users : users[u].email = email
       THEN UNCHANGED <<users, ever>>
       ELSE /\ rowid(users) <= MaxUserId
            /\ users' = insertar(users, [email |-> email])
            /\ ever' = [ever EXCEPT !.users = @ \cup {rowid(users)}]
    /\ UNCHANGED <<variant, agroquimicos, gastos, ses, reporte, creado>>

(* DELETE /users/{id}/ (legacy).                                           *)
delete_user(id) ==
    /\ variant = "legacy"
    /\ users' = IF id \in DOMAIN users THEN borrar(users, id) ELSE users
    /\ UNCHANGED <<variant, agroquimicos, gastos, ses, reporte, ever, creado>>

(* ---------------------------- agrochemicals ---------------------------- *)
(* POST /agroquimicos/ (both variants).                                    *)
create_agroquimico(cantidad, precio, moneda) ==
    /\ rowid(agroquimicos) <= MaxAgroId
    /\ agroquimicos' = insertar(agroquimicos, fila_agroquimico(cantidad, precio, moneda))
    /\ ever' = [ever EXCEPT !.agroquimicos = @ \cup {rowid(agroquimicos)}]
    /\ creado' = [i \in DOMAIN creado \cup {rowid(agroquimicos)} |->
                    IF i = rowid(agroquimicos) THEN cantidad ELSE creado[i]]
    /\ UNCHANGED <<variant, users, gastos, ses, reporte>>

(* DELETE /agroquimicos/{id}/ (legacy).  The expense rows stay.            *)
delete_agroquimico(id) ==
    /\ variant = "legacy"
    /\ IF id \in DOMAIN agroquimicos
       THEN /\ agroquimicos' = borrar(agroquimicos, id)
            /\ creado' = borrar(creado, id)
       ELSE UNCHANGED <<agroquimicos, creado>>
    /\ UNCHANGED <<variant, users, gastos, ses, reporte, ever>>

(* ------------------- POST /agroquimicos/{id}/aplicar/ ------------------ *)
(* The expense row the handler builds (fecha left out).                    *)
nuevo_gasto_legacy(id, aplicada, precio) ==
    [agroquimico_id |-> id, cantidad_aplicada |-> aplicada,
     costo_total |-> costo_total_legacy(precio, aplicada)]

nuevo_gasto_ruralis(id, aplicada, precio, moneda, tipo_cambio) ==
    [agroquimico_id |-> id, cantidad_aplicada |-> aplicada,
     costo_total_ars |-> costo_total_ars(precio, aplicada),
     costo_total_usd |-> costo_total_usd(moneda, costo_total_ars(precio, aplicada),
                                         tipo_cambio)]

(* The query, the two checks and the reduction of the stock on the loaded  *)
(* object (ruralis lines 96-107, legacy lines 137-159).  The reduction is  *)
(* in the session only.  The legacy handler goes on to build its expense   *)
(* row; the ruralis handler has the exchange rate to fetch first.          *)
aplicar_agroquimico(s, id, dosis, hectareas) ==
    /\ ses[s].pc = "idle"
    /\ Cardinality(DOMAIN gastos) + Cardinality({t \in Sessions : EnVuelo(t)}) < MaxGastoId
    /\ LET req == [Idle EXCEPT !.agroquimico_id = id, !.dosis = dosis,
                               !.hectareas = hectareas]
           aplicada == cantidad_aplicada(dosis, hectareas)
       IN  IF id \notin DOMAIN agroquimicos
           THEN ses' = [ses EXCEPT ![s] =
                    [req EXCEPT !.pc = "respuesta",
                                !.resp = [error |-> "Agroquimico no encontrado"]]]
           ELSE LET fila == agroquimicos[id] IN
                IF StockInsuficiente(fila.cantidad, aplicada)
                THEN ses' = [ses EXCEPT ![s] =
                         [req EXCEPT !.pc = "respuesta", !.obj = fila,
                                     !.leido = fila.cantidad,
                                     !.resp = [error |-> "Stock insuficiente"]]]
                ELSE LET obj == [fila EXCEPT
                                   !.cantidad = reducir_stock(fila.cantidad, aplicada)]
                     IN  ses' = [ses EXCEPT ![s] =
                           IF variant = "legacy"
                           THEN [req EXCEPT !.pc = "commit", !.obj = obj,
                                            !.leido = fila.cantidad,
                                            !.gasto = nuevo_gasto_legacy(
                                                id, aplicada, obj.precio_unitario)]
                           ELSE [req EXCEPT !.pc = "tipo_cambio", !.obj = obj,
                                            !.leido = fila.cantidad]]
    /\ UNCHANGED <<variant, users, agroquimicos, gastos, reporte, ever, creado>>

(* ruralis lines 109-126: the exchange rate, the two costs, the expense    *)
(* row.  A rate that is no number makes costo_total_ars * tipo_cambio      *)
(* raise TypeError; the request ends with nothing committed.               *)
aplicar_tipo_cambio(s, r) ==
    /\ ses[s].pc = "tipo_cambio"
    /\ LET tc == obtener_tipo_cambio(r)
           o == ses[s].obj
       IN  ses' = [ses EXCEPT ![s] =
             IF o.moneda = "ARS" /\ ~EsNumero(tc)
             THEN [@ EXCEPT !.pc = "error500", !.tipo_cambio = tc,
                            !.resp = [excepcion |-> "TypeError"]]
             ELSE [@ EXCEPT !.pc = "commit", !.tipo_cambio = tc,
                            !.gasto = nuevo_gasto_ruralis(
                                ses[s].agroquimico_id, Aplicada(s),
                                o.precio_unitario, o.moneda, tc)]]
    /\ UNCHANGED <<variant, users, agroquimicos, gastos, reporte, ever, creado>>

(* db.commit(): the flush sends UPDATE agroquimicos SET cantidad = <the    *)
(* object's value> WHERE id = <id>, when the value differs from the one    *)
(* loaded, and the INSERT of the expense row; both in one transaction.     *)
HayUpdate(s) == ses[s].obj.cantidad # ses[s].leido

FilaPerdida(s) == HayUpdate(s) /\ ses[s].agroquimico_id \notin DOMAIN agroquimicos

(* Mutant: the UPDATE subtracts in the database (SET cantidad = cantidad -  *)
(* needed) instead of writing the value the session computed.              *)
Mut_cantidad_escrita_relativa(s) ==
    agroquimicos[ses[s].agroquimico_id].cantidad - Aplicada(s)

cantidad_escrita(s) == ses[s].obj.cantidad

aplicar_commit(s) ==
    /\ ses[s].pc = "commit"
    /\ ~FilaPerdida(s)
    /\ agroquimicos' = IF HayUpdate(s)
                       THEN [agroquimicos EXCEPT
                               ![ses[s].agroquimico_id].cantidad = cantidad_escrita(s)]
                       ELSE agroquimicos
    /\ gastos' = insertar(gastos, ses[s].gasto)
    /\ ever' = [ever EXCEPT !.gastos = @ \cup {rowid(gastos)}]
    /\ ses' = [ses EXCEPT ![s] = [@ EXCEPT !.pc = "refresh", !.gasto_id = rowid(gastos)]]
    /\ UNCHANGED <<variant, users, reporte, creado>>

(* Mutant: the reduced cantidad of the session's object reaches the store  *)
(* although the request failed (the change flushed and not rolled back).   *)
Mut_rollback_sin_deshacer(s) ==
    IF ses[s].agroquimico_id \in DOMAIN agroquimicos
    THEN [agroquimicos EXCEPT ![ses[s].agroquimico_id].cantidad = ses[s].obj.cantidad]
    ELSE agroquimicos

(* What a request that ends in an exception leaves in the store: get_db    *)
(* closes the session, which rolls back whatever was not committed.        *)
rollback(s) == agroquimicos

(* db.commit() raises: the UPDATE matched no row (the agrochemical was     *)
(* deleted meanwhile: StaleDataError), or another connection holds the     *)
(* database (OperationalError: database is locked).                        *)
aplicar_commit_falla(s) ==
    /\ ses[s].pc = "commit"
    /\ \/ FilaPerdida(s)
       \/ \E t \in Sessions \ {s} : ses[t].pc # "idle"
    /\ agroquimicos' = rollback(s)
    /\ ses' = [ses EXCEPT ![s] =
                 [@ EXCEPT !.pc = "error500",
                           !.resp = [excepcion |-> IF FilaPerdida(s)
                                                   THEN "StaleDataError"
                                                   ELSE "OperationalError"]]]
    /\ UNCHANGED <<variant, users, gastos, reporte, ever, creado>>

(* db.refresh(db_agroquimico); db.refresh(nuevo_gasto); return {...}       *)
aplicar_refresh(s) ==
    /\ ses[s].pc = "refresh"
    /\ LET id == ses[s].agroquimico_id IN
       ses' = [ses EXCEPT ![s] =
         IF id \in DOMAIN agroquimicos
         THEN [@ EXCEPT !.pc = "respuesta", !.obj = agroquimicos[id],
                  !.resp = [message |-> "Aplicacion registrada",
                            agroquimico |-> [id |-> id,
                                 stock_restante |-> agroquimicos[id].cantidad],
                            gasto |-> [id |-> ses[s].gasto_id,
                                       fila |-> gastos[ses[s].gasto_id]]]]
         ELSE [@ EXCEPT !.pc = "error500",
                        !.resp = [excepcion |-> "InvalidRequestError"]]]
    /\ UNCHANGED <<variant, users, agroquimicos, gastos, reporte, ever, creado>>

(* get_db's finally: the session is closed when the request has ended.     *)
get_db(s) ==
    /\ ses[s].pc \in {"respuesta", "error500"}
    /\ agroquimicos' = IF ses[s].pc = "error500" THEN rollback(s) ELSE agroquimicos
    /\ ses' = [ses EXCEPT ![s] = Idle]
    /\ UNCHANGED <<variant, users, gastos, reporte, ever, creado>>

(* --------------------- GET /reportes/costo-total/ ---------------------- *)
total_ars == Suma([g \in DOMAIN gastos |-> gastos[g].costo_total_ars], DOMAIN gastos)

total_usd == Suma([g \in DOMAIN gastos |-> gastos[g].costo_total_usd], DOMAIN gastos)

(* The handler's first statement evaluates the global name func.           *)
get_costo_total ==
    /\ variant = "ruralis"
    /\ reporte' = IF "func" \in Imports
                  THEN [costo_total_ars |-> total_ars, costo_total_usd |-> total_usd]
                  ELSE [excepcion |-> "NameError"]
    /\ UNCHANGED <<variant, users, agroquimicos, gastos, ses, ever, creado>>

(* --------------------------- specifications ---------------------------- *)
(* Requests do not overlap: one request runs from its first step to the    *)
(* closing of its session before the next one starts.  No other connection *)
(* holds the database and no row vanishes between a query and its commit,  *)
(* so db.commit() does not raise.                                          *)
Libre == \A t \in Sessions : ses[t].pc = "idle"

Solo(s) == \A t \in Sessions \ {s} : ses[t].pc = "idle"

Next ==
    \/ Libre /\ \E e \in Emails : create_user(e)
    \/ Libre /\ \E id \in 1..MaxUserId : delete_user(id)
    \/ Libre /\ \E c \in CantidadesIniciales, p \in Precios, m \in Monedas :
          create_agroquimico(c, p, m)
    \/ Libre /\ \E id \in 1..MaxAgroId : delete_agroquimico(id)
    \/ Libre /\ get_costo_total
    \/ \E s \in Sessions, id \in 1..MaxAgroId, d \in Dosis, h \in Hectareas :
          Solo(s) /\ aplicar_agroquimico(s, id, d, h)
    \/ \E s \in Sessions, r \in RespuestasAPI : Solo(s) /\ aplicar_tipo_cambio(s, r)
    \/ \E s \in Sessions : Solo(s) /\ aplicar_commit(s)
    \/ \E s \in Sessions : Solo(s) /\ aplicar_refresh(s)
    \/ \E s \in Sessions : Solo(s) /\ get_db(s)

Spec == Init /\ [][Next]_vars

(* Requests overlap: the handlers run on the server's thread pool, each    *)
(* with its own session, and every step of an apply interleaves freely     *)
(* with the steps of the other and with creates and deletes.  The user     *)
(* and report handlers touch nothing an apply reads or writes and are left *)
(* out.                                                                    *)
NextConc ==
    \/ \E c \in CantidadesIniciales, p \in Precios, m \in Monedas :
          create_agroquimico(c, p, m)
    \/ \E id \in 1..MaxAgroId : delete_agroquimico(id)
    \/ \E s \in Sessions, id \in 1..MaxAgroId, d \in Dosis, h \in Hectareas :
          aplicar_agroquimico(s, id, d, h)
    \/ \E s \in Sessions, r \in RespuestasAPI : aplicar_tipo_cambio(s, r)
    \/ \E s \in Sessions : aplicar_commit(s)
    \/ \E s \in Sessions : aplicar_commit_falla(s)
    \/ \E s \in Sessions : aplicar_refresh(s)
    \/ \E s \in Sessions : get_db(s)

SpecConc == Init /\ [][NextConc]_vars

(* ======================================================================= *)
(*                               Properties                                *)
(* ======================================================================= *)
Store == <<agroquimicos, gastos>>

Insuficiente == [error |-> "Stock insuficiente"]

(* The request of session s loaded its agrochemical and passed the         *)
(* sufficiency check.                                                      *)
Paso(s) == /\ ses[s].pc # "idle"
           /\ ses[s].obj # Nulo
           /\ ~(ses[s].leido < Aplicada(s))

(* The request of session s has committed its UPDATE and INSERT.           *)
Confirmo(s) == ses[s].gasto_id # 0

Termino(s) == ses[s].pc \in {"respuesta", "error500"}

(* C1: with requests that do not overlap, the stored cantidad of every     *)
(* agrochemical created with a cantidad >= 0 is >= 0 in every state.       *)
C1_StockNeverNegative ==
    \A id \in DOMAIN agroquimicos :
        creado[id] >= 0 => agroquimicos[id].cantidad >= 0

(* A stock created positive was applied down to exactly 0 and a further    *)
(* apply on it was rejected.                                               *)
C1_Witness ==
    \E s \in Sessions, id \in DOMAIN agroquimicos :
        /\ creado[id] > 0
        /\ agroquimicos[id].cantidad = 0
        /\ ses[s].agroquimico_id = id
        /\ ses[s].resp = Insuficiente

(* C2: an apply on a stored agrochemical whose dosis * hectareas exceeds   *)
(* the stored cantidad answers {"error": "Stock insuficiente"}, and no     *)
(* step of that request changes any agrochemical or any expense row.       *)
C2_InsufficientStockRejected ==
    [][\A s \in Sessions :
         /\ ( /\ ses[s].pc = "idle"
              /\ ses'[s].pc # "idle"
              /\ ses'[s].agroquimico_id \in DOMAIN agroquimicos
              /\ ses'[s].dosis * ses'[s].hectareas
                   > agroquimicos[ses'[s].agroquimico_id].cantidad )
            => ( /\ ses'[s].pc = "respuesta"
                 /\ ses'[s].resp = Insuficiente
                 /\ Store' = Store )
         /\ (ses[s].resp = Insuficiente) => (Store' = Store)
      ]_vars

(* A request was rejected for lack of stock while the expense table held   *)
(* a row and the stock was what the request had read.                      *)
C2_Witness ==
    \E s \in Sessions :
        /\ ses[s].pc = "respuesta"
        /\ ses[s].resp = Insuficiente
        /\ ses[s].leido > 0
        /\ agroquimicos[ses[s].agroquimico_id].cantidad = ses[s].leido
        /\ DOMAIN gastos # {}

(* C3: every apply on a stored agrochemical with dosis * hectareas <= the  *)
(* stored cantidad ends having reduced that cantidad by dosis * hectareas  *)
(* and having stored an expense row with that cantidad_aplicada and the    *)
(* requested agroquimico_id.                                               *)
C3_ApplyReducesAndRecords ==
    \A s \in Sessions :
        (Termino(s) /\ Paso(s)) =>
            /\ ses[s].pc = "respuesta"
            /\ ses[s].agroquimico_id \in DOMAIN agroquimicos
            /\ agroquimicos[ses[s].agroquimico_id].cantidad
                 = ses[s].leido - ses[s].dosis * ses[s].hectareas
            /\ ses[s].gasto_id \in DOMAIN gastos
            /\ gastos[ses[s].gasto_id].cantidad_aplicada
                 = ses[s].dosis * ses[s].hectareas
            /\ gastos[ses[s].gasto_id].agroquimico_id = ses[s].agroquimico_id

(* C4: the apply is atomic in the committed store, under any interleaving: *)
(* a step changes a stored cantidad only together with the insert of the   *)
(* expense row of the same request, an expense row appears only together   *)
(* with its reduction of the stock, and the step in which a request fails  *)
(* (the exchange-rate step, the commit) and the closing of its session     *)
(* change nothing in the store.                                            *)
C4_ApplyAtomic ==
    [][LET Commit(s) ==
             /\ ses[s].pc = "commit"
             /\ ses'[s].pc = "refresh"
             /\ ses'[s].gasto_id \notin DOMAIN gastos
             /\ DOMAIN gastos' = DOMAIN gastos \cup {ses'[s].gasto_id}
             /\ \A g \in DOMAIN gastos : gastos'[g] = gastos[g]
             /\ gastos'[ses'[s].gasto_id] = ses[s].gasto
             /\ ses[s].agroquimico_id \in DOMAIN agroquimicos'
             /\ agroquimicos'[ses[s].agroquimico_id].cantidad
                  = ses[s].leido - ses[s].gasto.cantidad_aplicada
       IN
       /\ \A id \in DOMAIN agroquimicos \cap DOMAIN agroquimicos' :
             agroquimicos'[id].cantidad # agroquimicos[id].cantidad
                => \E s \in Sessions : Commit(s) /\ ses[s].agroquimico_id = id
       /\ gastos' # gastos => \E s \in Sessions : Commit(s)
       /\ \A s \in Sessions :
             (ses'[s] # ses[s] /\ (ses'[s].pc = "error500" \/ ses[s].pc = "error500"))
                => Store' = Store
      ]_vars

(* Two requests reduced the stock in their sessions and then failed, one   *)
(* in the exchange-rate step and one in the commit: the stored cantidad is *)
(* the one they read and there is no expense row.                          *)
C4_Witness ==
    \E s, t \in Sessions :
        /\ ses[s].pc = "error500" /\ ses[s].resp = [excepcion |-> "TypeError"]
        /\ ses[t].pc = "error500" /\ ses[t].resp = [excepcion |-> "OperationalError"]
        /\ ses[s].obj.cantidad < ses[s].leido
        /\ ses[t].obj.cantidad < ses[t].leido
        /\ ses[s].agroquimico_id \in DOMAIN agroquimicos
        /\ agroquimicos[ses[s].agroquimico_id].cantidad = ses[s].leido
        /\ DOMAIN gastos = {}

(* C5: whatever the provider answers, the rate obtener_tipo_cambio returns *)
(* is a number, and no apply that passed the checks fails.                 *)
C5_RateAlwaysUsable ==
    \A s \in Sessions :
        (variant = "ruralis" /\ ses[s].tipo_cambio # Nulo) =>
            /\ EsNumero(ses[s].tipo_cambio)
            /\ ses[s].pc # "error500"

(* C6: a create (user, agrochemical, expense row) stores its entity under  *)
(* an id its table never held before.                                      *)
C6_IdsNeverReused ==
    [][/\ \A id \in DOMAIN users' \ DOMAIN users : id \notin ever.users
       /\ \A id \in DOMAIN agroquimicos' \ DOMAIN agroquimicos :
             id \notin ever.agroquimicos
       /\ \A id \in DOMAIN gastos' \ DOMAIN gastos : id \notin ever.gastos
      ]_vars

(* C7: the expense row an apply builds has cost_in_ars = precio_unitario * *)
(* cantidad_aplicada, and cost_in_usd = cost_in_ars * rate for an ARS      *)
(* agrochemical, cost_in_ars for a USD one (amounts in thousandths).       *)
C7_CostFormula ==
    \A s \in Sessions :
        (ses[s].pc = "commit") =>
            LET g == ses[s].gasto
                precio == ses[s].obj.precio_unitario
                ars == precio * (ses[s].dosis * ses[s].hectareas) * 1000
            IN  IF variant = "legacy"
                THEN g.costo_total = ars
                ELSE /\ g.costo_total_ars = ars
                     /\ g.costo_total_usd =
                          IF ses[s].obj.moneda = "ARS"
                          THEN (ars * ses[s].tipo_cambio.valor) \div 1000
                          ELSE ars

(* C8: GET /reportes/costo-total/ answers the sums of the two cost columns *)
(* over the expense table (0 and 0 on an empty table) and never fails.     *)
C8_ReportIsSum ==
    [][reporte' # reporte =>
         reporte' = [costo_total_ars |-> total_ars, costo_total_usd |-> total_usd]
      ]_vars

(* C9 as stated: when two overlapping applies on one agrochemical read the *)
(* same stock, both pass the check and both commit, needing together more  *)
(* than what they read, the stored cantidad ends below zero.               *)
Carrera(s, t) ==
    /\ s # t
    /\ Paso(s) /\ Paso(t)
    /\ ses[s].agroquimico_id = ses[t].agroquimico_id
    /\ ses[s].leido = ses[t].leido

C9_RaceOverdrawsBelowZero ==
    \A s, t \in Sessions :
        ( /\ Carrera(s, t)
          /\ Confirmo(s) /\ Confirmo(t)
          /\ Aplicada(s) + Aplicada(t) > ses[s].leido
          /\ ses[s].agroquimico_id \in DOMAIN agroquimicos )
        => agroquimicos[ses[s].agroquimico_id].cantidad < 0

(* C9 amended: two overlapping applies on one agrochemical may read the    *)
(* same stock and both pass the check, but each commit writes the value    *)
(* its own session computed (read - needed), so the stored cantidad of an  *)
(* agrochemical created with a cantidad >= 0 is never below zero.          *)
C9_RaceNeverBelowZero ==
    \A s, t \in Sessions :
        Carrera(s, t) =>
            \A id \in DOMAIN agroquimicos :
                creado[id] >= 0 => agroquimicos[id].cantidad >= 0

(* Both requests read the same stock, passed the check and committed,      *)
(* their expense rows together exceed what they read, and the stored       *)
(* cantidad is not negative.                                               *)
C9_Witness ==
    \E s, t \in Sessions :
        /\ Carrera(s, t)
        /\ Confirmo(s) /\ Confirmo(t)
        /\ Aplicada(s) + Aplicada(t) > ses[s].leido
        /\ ses[s].agroquimico_id \in DOMAIN agroquimicos
        /\ creado[ses[s].agroquimico_id] >= 0
        /\ agroquimicos[ses[s].agroquimico_id].cantidad >= 0

(* C10: for every stored agrochemical, and under any interleaving, its     *)
(* cantidad at creation minus its stored cantidad is the sum of            *)
(* cantidad_aplicada over the expense rows that carry its id.              *)
aplicado_a(id) ==
    Suma([g \in DOMAIN gastos |->
            IF gastos[g].agroquimico_id = id THEN gastos[g].cantidad_aplicada ELSE 0],
         DOMAIN gastos)

C10_StockConservation ==
    \A id \in DOMAIN agroquimicos :
        creado[id] - agroquimicos[id].cantidad = aplicado_a(id)

====
